---------------------------- MODULE Spec2Model ----------------------------
(***************************************************************************)
(* SPHinXsys: the multi-rate time-integration loop of the two-phase        *)
(* dambreak case (two_phase_dambreak.cpp, main) and the generalized        *)
(* particle-data operations of sph_data_containers.h.                      *)
(*                                                                         *)
(* Time values (Real in the source) are integer multiples of one time      *)
(* unit.  The estimators, relaxation operators, recorders and the          *)
(* cell-linked-list / configuration updates are collaborators whose code   *)
(* is outside the two files: an estimator is an input that returns any     *)
(* value of EstimatorValues, the other operators are steps that are        *)
(* counted in calls.                                                       *)
(***************************************************************************)
EXTENDS Integers, Sequences, FiniteSets, TLC

(***************************************************************************)
(* Bounds of the model.                                                    *)
(***************************************************************************)
\* end_time = 20.0 and output_interval = 0.1 in the source (lines 119, 120);
\* here in time units, scaled down so that the run is finite and small.
end_time == 4
output_interval == 3
\* screen_output_interval = 100 in the source (line 116), scaled down.
screen_output_interval == 2
\* The largest value an estimator returns, in time units.
MaxEstimate == 3
\* How many times in one run an estimator returns a value <= 0.
MaxNonPositive == 1

\* The values of the source, in units of 0.001: end_time = 20.0,
\* output_interval = 0.1, screen_output_interval = 100.
source_end_time == 20000
source_output_interval == 100
source_screen_output_interval == 100

\* What a step-size estimator (a ReduceDynamics over the particles) returns.
EstimatorValues == {-1, 0} \cup (1..MaxEstimate)

VARIABLES
    pc,                    \* the statement of main the scheduler is at
    physical_time,         \* GlobalStaticVariables::physical_time_
    integration_time,
    relaxation_time,
    Dt_f, Dt_a, Dt,        \* advection estimates and the outer step
    dt_f, dt_a, dt,        \* acoustic estimates and the inner step
                           \* (a local that is out of scope holds 0)
    number_of_iterations,
    calls,                 \* per operator: executions since the current
                           \* iteration of the integration loop began
    relaxed_total,         \* sum of the dt the last relaxation pass ran with
    nonpositive_returns,   \* estimator returns <= 0 so far
    recorded,              \* body_states_recording.writeToFile() calls since
                           \* the current iteration of the main loop began
    stale,                 \* the body relations whose configuration is older
                           \* than the last cell-linked-list update of a body
                           \* they refer to
    scripted,              \* the run is the case of the source, its
                           \* estimators returning ScriptedEstimates
    recorder_faults        \* a write of a recorder may fail in this run

sched_vars == <<pc, physical_time, integration_time, relaxation_time,
                Dt_f, Dt_a, Dt, dt_f, dt_a, dt, number_of_iterations,
                calls, relaxed_total, nonpositive_returns, recorded, stale,
                scripted, recorder_faults>>
\* What a run is set up with: no statement of main changes it.
setup_vars == <<scripted, recorder_faults>>

(***************************************************************************)
(* The particle data of one body (sph_data_containers.h).                  *)
(*                                                                         *)
(* particle_data[t] is the StdVec of the variables of type index t, each   *)
(* variable a StdLargeVec of one value per particle (a sequence: the       *)
(* particle with index i of the source is element i + 1).                  *)
(* particle_data_map[t] maps a variable name to the variable's index in    *)
(* particle_data[t], a std::map, iterated in the order of its keys.        *)
(***************************************************************************)
\* The most particles and the most variables of one type a body starts with.
MaxParticles == 2
MaxVariables == 2
\* The most entries of a variable name list passed to one operation.
MaxListEntries == 2
\* The particles of the store of the removal case.
RemovalCaseParticles == 5

\* ParticleDataTypeIndex<Real>, <Vecd>, <Matd>, <int>.
TypeIndexes == 0..3
\* Variable names, in the order of std::string's operator<.
SortedNames == <<"Density", "Pressure">>
VariableNames == {SortedNames[k] : k \in 1..Len(SortedNames)}
\* What an element read from outside its array may hold.
IndeterminateValues == {-1, 0}

VARIABLES
    particle_data,
    particle_data_map,
    store_status,          \* "ok", or how an operation with undefined
                           \* behaviour ended: "crashed", "corrupted"
    last_op,               \* the last operation applied and its arguments
    store_before,          \* particle_data before the last operation
    visited,               \* the calls of variable_operation, in order
    instances_run,         \* the type indexes whose operation instance the
                           \* last ParticleDataOperation ran, in order
    variable_name_list,    \* the ParticleVariableList the last operation by
                           \* variable list was given
    total_real_particles   \* the particle count N of the body

store_vars == <<particle_data, particle_data_map, store_status, last_op,
                store_before, visited, instances_run, variable_name_list,
                total_real_particles>>

SMIN(a, b) == IF a < b THEN a ELSE b

PreStepOperators == {"initialize_a_water_step", "initialize_a_air_step"}
AdvectionEstimators ==
    {"get_water_advection_time_step_size", "get_air_advection_time_step_size"}
CorrectionOperators ==
    {"update_water_density_by_summation", "update_air_density_by_summation",
     "air_transport_correction"}
AcousticEstimators == {"get_water_time_step_size", "get_air_time_step_size"}
PressureRelaxations == {"water_pressure_relaxation", "air_pressure_relaxation"}
DensityRelaxations == {"water_density_relaxation", "air_density_relaxation"}
RelaxationOperators == PressureRelaxations \cup DensityRelaxations
IterationRecorders ==
    {"write_water_mechanical_energy", "write_recorded_pressure", "restart_io"}
SortOperators ==
    {"water_block_updateCellLinkedListWithParticleSort",
     "air_block_updateCellLinkedListWithParticleSort"}
ConfigurationOperators ==
    {"water_air_complex_updateConfiguration",
     "water_wall_contact_updateConfiguration",
     "air_water_complex_updateConfiguration",
     "air_wall_contact_updateConfiguration",
     "fluid_observer_contact_updateConfiguration"}
RefreshOperators == SortOperators \cup ConfigurationOperators
Operators ==
    PreStepOperators \cup AdvectionEstimators \cup CorrectionOperators
    \cup AcousticEstimators \cup RelaxationOperators \cup IterationRecorders
    \cup RefreshOperators

NoCalls == [op \in Operators |-> 0]

\* The bodies a body relation refers to, its own body first (lines 46-50),
\* by the statement that updates the relation's configuration.
RelationBodies ==
    [water_air_complex_updateConfiguration |-> {"water_block", "air_block"},
     water_wall_contact_updateConfiguration |-> {"water_block", "wall_boundary"},
     air_water_complex_updateConfiguration |-> {"air_block", "water_block"},
     air_wall_contact_updateConfiguration |-> {"air_block", "wall_boundary"},
     fluid_observer_contact_updateConfiguration |->
         {"fluid_observer", "water_block", "air_block"}]
\* The body whose cell linked list a statement updates.
SortedBody ==
    [water_block_updateCellLinkedListWithParticleSort |-> "water_block",
     air_block_updateCellLinkedListWithParticleSort |-> "air_block"]

\* The stale relations after operator op: body.updateCellLinkedList... makes
\* the configuration of every relation that refers to the body out of date,
\* relation.updateConfiguration() brings the relation up to date.
Refreshed(op) ==
    IF op \in SortOperators
       THEN stale \cup {r \in ConfigurationOperators :
                           SortedBody[op] \in RelationBodies[r]}
    ELSE IF op \in ConfigurationOperators THEN stale \ {op}
    ELSE stale

\* One execution of operator op (parallel_exec, writeToFile, update...).
Called(op) == [calls EXCEPT ![op] = @ + 1]

\* main after the first output (lines 101-111): the cell linked lists and
\* the configurations are built, the state at time 0 is written.
SchedStart ==
    /\ pc = "main_loop"
    /\ physical_time = 0
    /\ integration_time = 0
    /\ relaxation_time = 0
    /\ Dt_f = 0 /\ Dt_a = 0 /\ Dt = 0
    /\ dt_f = 0 /\ dt_a = 0 /\ dt = 0
    /\ number_of_iterations = 0
    /\ calls = NoCalls
    /\ relaxed_total = 0
    /\ nonpositive_returns = 0
    /\ recorded = 0
    /\ stale = {}

\* A run with estimators that return any value and recorders that write.
SchedInit ==
    /\ SchedStart
    /\ scripted = FALSE
    /\ recorder_faults = FALSE

\* The estimates of the end-to-end case, in units of 0.001: advection 0.02
\* and 0.03, acoustic 0.005 and 0.007, at every query.
ScriptedEstimates ==
    [get_water_advection_time_step_size |-> 20,
     get_air_advection_time_step_size |-> 30,
     get_water_time_step_size |-> 5,
     get_air_time_step_size |-> 7]

\* What estimator op can return at one query.
Estimates(op) ==
    IF scripted THEN {ScriptedEstimates[op]} ELSE EstimatorValues

\* An estimator returns v; a return <= 0 is counted and bounded per run.
EstimatorReturns(v) ==
    /\ v <= 0 => nonpositive_returns < MaxNonPositive
    /\ nonpositive_returns' =
           IF v <= 0 THEN nonpositive_returns + 1 ELSE nonpositive_returns

\* The main loop bounded by output_interval instead of end_time.
MainLoopGuardOutputInterval == physical_time < output_interval
\* The integration loop entered once more at integration_time = output_interval.
IntegrationLoopGuardInclusive == integration_time <= output_interval

\* end_time, output_interval and screen_output_interval of the run.
EndTime == IF scripted THEN source_end_time ELSE end_time
OutputInterval == IF scripted THEN source_output_interval ELSE output_interval
ScreenOutputInterval ==
    IF scripted THEN source_screen_output_interval ELSE screen_output_interval
observation_sample_interval == ScreenOutputInterval * 2
restart_output_interval == ScreenOutputInterval * 10

MainLoopGuard == physical_time < EndTime
IntegrationLoopGuard == integration_time < OutputInterval
RelaxationLoopGuard == relaxation_time < Dt

\* The outer step taken from the water phase alone.
OuterStepOfWater(f, a) == f
\* The inner step taken from the air phase alone.
InnerStepOfAir(f, a, D) == SMIN(a, D)
\* The inner step without the cap by Dt.
InnerStepUncapped(f, a, D) == SMIN(f, a)

\* Real Dt = SMIN(Dt_f, Dt_a);
OuterStep(f, a) == SMIN(f, a)
\* dt = SMIN(SMIN(dt_f, dt_a), Dt);
InnerStep(f, a, D) == SMIN(SMIN(f, a), D)

\* while (GlobalStaticVariables::physical_time_ < end_time)
\*     Real integration_time = 0.0;
MainLoop ==
    /\ pc = "main_loop"
    /\ IF MainLoopGuard
          THEN /\ integration_time' = 0
               /\ recorded' = 0
               /\ pc' = "integration_loop"
          ELSE /\ pc' = "done"
               /\ UNCHANGED <<integration_time, recorded>>
    /\ UNCHANGED <<physical_time, relaxation_time, Dt_f, Dt_a, Dt, dt_f, dt_a,
                   dt, number_of_iterations, calls, relaxed_total,
                   nonpositive_returns,
                   stale, setup_vars, store_vars>>

\* body_states_recording.writeToFile() placed inside the integration loop:
\* the body states are written at every outer step.
IntegrationLoopRecordsEveryStep ==
    /\ pc = "integration_loop"
    /\ IF IntegrationLoopGuard
          THEN /\ pc' = "initialize_a_water_step"
               /\ calls' = NoCalls
               /\ recorded' = recorded + 1
          ELSE /\ pc' = "body_states_recording"
               /\ UNCHANGED <<calls, recorded>>
    /\ UNCHANGED <<physical_time, integration_time, relaxation_time, Dt_f, Dt_a,
                   Dt, dt_f, dt_a, dt, number_of_iterations, relaxed_total,
                   nonpositive_returns, stale, setup_vars, store_vars>>

\* while (integration_time < output_interval)
IntegrationLoop ==
    /\ pc = "integration_loop"
    /\ IF IntegrationLoopGuard
          THEN /\ pc' = "initialize_a_water_step"
               /\ calls' = NoCalls
          ELSE /\ pc' = "body_states_recording"
               /\ UNCHANGED calls
    /\ UNCHANGED <<physical_time, integration_time, relaxation_time, Dt_f, Dt_a,
                   Dt, dt_f, dt_a, dt, number_of_iterations, relaxed_total,
                   nonpositive_returns,
                   recorded, stale, setup_vars, store_vars>>

\* An operator of the loop body that changes no scheduler variable:
\* op.parallel_exec(), op.writeToFile(n), body.update...(), relation.update...().
Exec(op) ==
    /\ calls' = Called(op)
    /\ stale' = Refreshed(op)
    /\ UNCHANGED <<physical_time, integration_time, relaxation_time, Dt_f, Dt_a,
                   Dt, dt_f, dt_a, dt, number_of_iterations, relaxed_total,
                   nonpositive_returns,
                   recorded, setup_vars, store_vars>>

InitializeWaterStep ==
    /\ pc = "initialize_a_water_step"
    /\ pc' = "initialize_a_air_step"
    /\ Exec("initialize_a_water_step")
InitializeAirStep ==
    /\ pc = "initialize_a_air_step"
    /\ pc' = "get_water_advection_time_step_size"
    /\ Exec("initialize_a_air_step")

\* Real Dt_f = get_water_advection_time_step_size.parallel_exec();
GetWaterAdvectionTimeStepSize ==
    /\ pc = "get_water_advection_time_step_size"
    /\ \E v \in Estimates(pc) :
          /\ EstimatorReturns(v)
          /\ Dt_f' = v
    /\ calls' = Called("get_water_advection_time_step_size")
    /\ pc' = "get_air_advection_time_step_size"
    /\ UNCHANGED <<physical_time, integration_time, relaxation_time, Dt_a, Dt,
                   dt_f, dt_a, dt, number_of_iterations, relaxed_total,
                   recorded, stale, setup_vars, store_vars>>

\* Real Dt_a = get_air_advection_time_step_size.parallel_exec();
\* Real Dt = SMIN(Dt_f, Dt_a);
GetAirAdvectionTimeStepSize ==
    /\ pc = "get_air_advection_time_step_size"
    /\ \E v \in Estimates(pc) :
          /\ EstimatorReturns(v)
          /\ Dt_a' = v
          /\ Dt' = OuterStep(Dt_f, v)
    /\ calls' = Called("get_air_advection_time_step_size")
    /\ pc' = "update_water_density_by_summation"
    /\ UNCHANGED <<physical_time, integration_time, relaxation_time, Dt_f,
                   dt_f, dt_a, dt, number_of_iterations, relaxed_total,
                   recorded, stale, setup_vars, store_vars>>

UpdateWaterDensityBySummation ==
    /\ pc = "update_water_density_by_summation"
    /\ pc' = "update_air_density_by_summation"
    /\ Exec("update_water_density_by_summation")
UpdateAirDensityBySummation ==
    /\ pc = "update_air_density_by_summation"
    /\ pc' = "air_transport_correction"
    /\ Exec("update_air_density_by_summation")

\* air_transport_correction.parallel_exec(Dt);
\* Real relaxation_time = 0.0;
AirTransportCorrection ==
    /\ pc = "air_transport_correction"
    /\ calls' = Called("air_transport_correction")
    /\ relaxation_time' = 0
    /\ pc' = "relaxation_loop"
    /\ UNCHANGED <<physical_time, integration_time, Dt_f, Dt_a, Dt, dt_f, dt_a,
                   dt, number_of_iterations, relaxed_total, nonpositive_returns,
                   recorded, stale, setup_vars, store_vars>>

\* while (relaxation_time < Dt)
RelaxationLoop ==
    /\ pc = "relaxation_loop"
    /\ pc' = IF RelaxationLoopGuard THEN "get_water_time_step_size"
                                    ELSE "screen_output"
    /\ UNCHANGED <<physical_time, integration_time, relaxation_time, Dt_f, Dt_a,
                   Dt, dt_f, dt_a, dt, number_of_iterations, calls,
                   relaxed_total, nonpositive_returns,
                   recorded, stale, setup_vars, store_vars>>

\* Real dt_f = get_water_time_step_size.parallel_exec();
GetWaterTimeStepSize ==
    /\ pc = "get_water_time_step_size"
    /\ \E v \in Estimates(pc) :
          /\ EstimatorReturns(v)
          /\ dt_f' = v
    /\ calls' = Called("get_water_time_step_size")
    /\ pc' = "get_air_time_step_size"
    /\ UNCHANGED <<physical_time, integration_time, relaxation_time, Dt_f, Dt_a,
                   Dt, dt_a, dt, number_of_iterations, relaxed_total,
                   recorded, stale, setup_vars, store_vars>>

\* Real dt_a = get_air_time_step_size.parallel_exec();
\* dt = SMIN(SMIN(dt_f, dt_a), Dt);
GetAirTimeStepSize ==
    /\ pc = "get_air_time_step_size"
    /\ \E v \in Estimates(pc) :
          /\ EstimatorReturns(v)
          /\ dt_a' = v
          /\ dt' = InnerStep(dt_f, v, Dt)
    /\ calls' = Called("get_air_time_step_size")
    /\ pc' = "water_pressure_relaxation"
    /\ UNCHANGED <<physical_time, integration_time, relaxation_time, Dt_f, Dt_a,
                   Dt, dt_f, number_of_iterations, relaxed_total,
                   recorded, stale, setup_vars, store_vars>>

\* The density relaxation of water run before the pressure relaxation of air.
WaterPressureRelaxationThenDensity ==
    /\ pc = "water_pressure_relaxation"
    /\ pc' = "water_density_relaxation"
    /\ Exec("water_pressure_relaxation")

WaterPressureRelaxation ==
    /\ pc = "water_pressure_relaxation"
    /\ pc' = "air_pressure_relaxation"
    /\ Exec("water_pressure_relaxation")
AirPressureRelaxation ==
    /\ pc = "air_pressure_relaxation"
    /\ pc' = "water_density_relaxation"
    /\ Exec("air_pressure_relaxation")
WaterDensityRelaxation ==
    /\ pc = "water_density_relaxation"
    /\ pc' = "air_density_relaxation"
    /\ Exec("water_density_relaxation")

\* air_density_relaxation.parallel_exec(dt): the last pass of an inner step.
AirDensityRelaxation ==
    /\ pc = "air_density_relaxation"
    /\ calls' = Called("air_density_relaxation")
    /\ relaxed_total' = relaxed_total + dt
    /\ pc' = "advance_time"
    /\ UNCHANGED <<physical_time, integration_time, relaxation_time, Dt_f, Dt_a,
                   Dt, dt_f, dt_a, dt, number_of_iterations,
                   nonpositive_returns,
                   recorded, stale, setup_vars, store_vars>>

\* The cell-linked-list and configuration updates placed inside the sub-loop:
\* they follow every inner step.
AdvanceTimeThenRefresh ==
    /\ pc = "advance_time"
    /\ relaxation_time' = relaxation_time + dt
    /\ integration_time' = integration_time + dt
    /\ physical_time' = physical_time + dt
    /\ dt_f' = 0 /\ dt_a' = 0
    /\ pc' = "water_block_updateCellLinkedListWithParticleSort"
    /\ UNCHANGED <<Dt_f, Dt_a, Dt, dt, number_of_iterations, calls,
                   relaxed_total, nonpositive_returns, recorded, stale,
                   setup_vars, store_vars>>

\* relaxation_time += dt; integration_time += dt; physical_time_ += dt;
\* The body of the sub-loop ends: its locals dt_f and dt_a leave scope.
AdvanceTime ==
    /\ pc = "advance_time"
    /\ relaxation_time' = relaxation_time + dt
    /\ integration_time' = integration_time + dt
    /\ physical_time' = physical_time + dt
    /\ dt_f' = 0 /\ dt_a' = 0
    /\ pc' = "relaxation_loop"
    /\ UNCHANGED <<Dt_f, Dt_a, Dt, dt, number_of_iterations, calls,
                   relaxed_total, nonpositive_returns,
                   recorded, stale, setup_vars, store_vars>>

ScreenOutputDue == number_of_iterations % ScreenOutputInterval = 0
ObservationDue ==
    /\ ScreenOutputDue
    /\ number_of_iterations # 0
    /\ number_of_iterations % observation_sample_interval = 0
RestartDue ==
    /\ ScreenOutputDue
    /\ number_of_iterations % restart_output_interval = 0

\* if (number_of_iterations % screen_output_interval == 0) { std::cout ...
ScreenOutput ==
    /\ pc = "screen_output"
    /\ pc' = IF ObservationDue THEN "write_water_mechanical_energy"
             ELSE IF RestartDue THEN "restart_io"
             ELSE "count_iteration"
    /\ UNCHANGED <<physical_time, integration_time, relaxation_time, Dt_f, Dt_a,
                   Dt, dt_f, dt_a, dt, number_of_iterations, calls,
                   relaxed_total, nonpositive_returns,
                   recorded, stale, setup_vars, store_vars>>

\* How a writeToFile of a recorder ends: the file written, the write failed
\* and the call returned, or the write failed and the call threw.
RecorderOutcomes ==
    IF recorder_faults THEN {"written", "failed", "thrown"} ELSE {"written"}

\* Where main is after a writeToFile: no statement of main is in a try
\* block, an exception leaves main and the run is terminated.
AfterWrite(outcome, next) == IF outcome = "thrown" THEN "terminated" ELSE next

WriteWaterMechanicalEnergy ==
    /\ pc = "write_water_mechanical_energy"
    /\ \E outcome \in RecorderOutcomes :
          pc' = AfterWrite(outcome, "write_recorded_pressure")
    /\ Exec("write_water_mechanical_energy")
WriteRecordedPressure ==
    /\ pc = "write_recorded_pressure"
    /\ \E outcome \in RecorderOutcomes :
          pc' = AfterWrite(outcome, IF RestartDue THEN "restart_io"
                                                  ELSE "count_iteration")
    /\ Exec("write_recorded_pressure")
RestartIO ==
    /\ pc = "restart_io"
    /\ \E outcome \in RecorderOutcomes :
          pc' = AfterWrite(outcome, "count_iteration")
    /\ Exec("restart_io")

\* number_of_iterations++;
CountIteration ==
    /\ pc = "count_iteration"
    /\ number_of_iterations' = number_of_iterations + 1
    /\ pc' = "water_block_updateCellLinkedListWithParticleSort"
    /\ UNCHANGED <<physical_time, integration_time, relaxation_time, Dt_f, Dt_a,
                   Dt, dt_f, dt_a, dt, calls, relaxed_total,
                   nonpositive_returns,
                   recorded, stale, setup_vars, store_vars>>

WaterBlockSort ==
    /\ pc = "water_block_updateCellLinkedListWithParticleSort"
    /\ pc' = "water_air_complex_updateConfiguration"
    /\ Exec("water_block_updateCellLinkedListWithParticleSort")
WaterAirComplexConfiguration ==
    /\ pc = "water_air_complex_updateConfiguration"
    /\ pc' = "water_wall_contact_updateConfiguration"
    /\ Exec("water_air_complex_updateConfiguration")
WaterWallContactConfiguration ==
    /\ pc = "water_wall_contact_updateConfiguration"
    /\ pc' = "air_block_updateCellLinkedListWithParticleSort"
    /\ Exec("water_wall_contact_updateConfiguration")
AirBlockSort ==
    /\ pc = "air_block_updateCellLinkedListWithParticleSort"
    /\ pc' = "air_water_complex_updateConfiguration"
    /\ Exec("air_block_updateCellLinkedListWithParticleSort")
AirWaterComplexConfiguration ==
    /\ pc = "air_water_complex_updateConfiguration"
    /\ pc' = "air_wall_contact_updateConfiguration"
    /\ Exec("air_water_complex_updateConfiguration")
AirWallContactConfiguration ==
    /\ pc = "air_wall_contact_updateConfiguration"
    /\ pc' = "fluid_observer_contact_updateConfiguration"
    /\ Exec("air_wall_contact_updateConfiguration")
\* fluid_observer_contact.updateConfiguration();
\* The body of the integration loop ends: its locals Dt_f, Dt_a, Dt and
\* relaxation_time leave scope.
FluidObserverContactConfiguration ==
    /\ pc = "fluid_observer_contact_updateConfiguration"
    /\ pc' = "integration_loop"
    /\ calls' = Called("fluid_observer_contact_updateConfiguration")
    /\ stale' = Refreshed("fluid_observer_contact_updateConfiguration")
    /\ Dt_f' = 0 /\ Dt_a' = 0 /\ Dt' = 0
    /\ relaxation_time' = 0
    /\ UNCHANGED <<physical_time, integration_time, dt_f, dt_a, dt,
                   number_of_iterations, relaxed_total, nonpositive_returns,
                   recorded, setup_vars, store_vars>>

\* body_states_recording.writeToFile();
BodyStatesRecording ==
    /\ pc = "body_states_recording"
    /\ \E outcome \in RecorderOutcomes :
          pc' = AfterWrite(outcome, "main_loop")
    /\ recorded' = recorded + 1
    /\ UNCHANGED <<physical_time, integration_time, relaxation_time, Dt_f, Dt_a,
                   Dt, dt_f, dt_a, dt, number_of_iterations, calls,
                   relaxed_total, nonpositive_returns,
                   stale, setup_vars, store_vars>>

SchedNext ==
    \/ MainLoop
    \/ IntegrationLoop
    \/ InitializeWaterStep
    \/ InitializeAirStep
    \/ GetWaterAdvectionTimeStepSize
    \/ GetAirAdvectionTimeStepSize
    \/ UpdateWaterDensityBySummation
    \/ UpdateAirDensityBySummation
    \/ AirTransportCorrection
    \/ RelaxationLoop
    \/ GetWaterTimeStepSize
    \/ GetAirTimeStepSize
    \/ WaterPressureRelaxation
    \/ AirPressureRelaxation
    \/ WaterDensityRelaxation
    \/ AirDensityRelaxation
    \/ AdvanceTime
    \/ ScreenOutput
    \/ WriteWaterMechanicalEnergy
    \/ WriteRecordedPressure
    \/ RestartIO
    \/ CountIteration
    \/ WaterBlockSort
    \/ WaterAirComplexConfiguration
    \/ WaterWallContactConfiguration
    \/ AirBlockSort
    \/ AirWaterComplexConfiguration
    \/ AirWallContactConfiguration
    \/ FluidObserverContactConfiguration
    \/ BodyStatesRecording

\* The value of particle i of variable v (index v) of type t, as generated.
GeneratedValue(t, v, i) == 100 * (t + 1) + 10 * v + i

\* The orders in which a body's algorithms can register the variable names.
RegistrationOrders ==
    {order \in [1..Len(SortedNames) -> VariableNames] :
        \A j, k \in 1..Len(SortedNames) : order[j] = order[k] => j = k}

\* The name to index map after the first k names of order are registered:
\* each registration takes the next index.
Registered(order, k) ==
    [n \in {order[j] : j \in 1..k} |->
        (CHOOSE j \in 1..k : order[j] = n) - 1]

NoOperation == [kind |-> "none", a |-> 0, b |-> 0, repeated |-> FALSE]
\* A ParticleVariableList without entries.
NoVariableNames == [t \in TypeIndexes |-> <<>>]

\* No operation applied yet.
StoreUntouched ==
    /\ store_status = "ok"
    /\ last_op = NoOperation
    /\ store_before = particle_data
    /\ visited = <<>>
    /\ instances_run = <<>>
    /\ variable_name_list = NoVariableNames

\* The particle data of N particles with count[t] variables of type t,
\* registered in the given order of names.
Generated(N, count, order) ==
    /\ particle_data =
          [t \in TypeIndexes |->
              [v \in 1..count[t] |->
                  [i \in 1..N |-> GeneratedValue(t, v - 1, i - 1)]]]
    /\ particle_data_map =
          [t \in TypeIndexes |-> Registered(order, count[t])]
    /\ total_real_particles = N

\* A body after its variables are registered and its particles generated.
StoreInit ==
    /\ \E N \in 0..MaxParticles :
       \E count \in [TypeIndexes -> 0..SMIN(MaxVariables, Len(SortedNames))] :
       \E order \in RegistrationOrders :
          Generated(N, count, order)
    /\ StoreUntouched

\* A body before any variable is registered and any particle generated.
StoreEmpty ==
    /\ particle_data = [t \in TypeIndexes |-> <<>>]
    /\ particle_data_map = [t \in TypeIndexes |-> <<>>]
    /\ total_real_particles = 0
    /\ StoreUntouched

\* What an operation instance works on: the data and the visitor's record.
OperationState(data) == [data |-> data, visited |-> <<>>, instances |-> <<>>]

\* variable[index_a] = variable[index_b] alone: the exchange lost.
StdSwapCopies(variable, index_a, index_b) ==
    [variable EXCEPT ![index_a + 1] = variable[index_b + 1]]

\* std::swap(variable[index_a], variable[index_b]), both indexes in range.
StdSwap(variable, index_a, index_b) ==
    [variable EXCEPT ![index_a + 1] = variable[index_b + 1],
                     ![index_b + 1] = variable[index_a + 1]]

\* The swap applied to the variables of type Real alone.
swapParticleDataValueOfReals(t, st, index_a, index_b) ==
    IF t # 0 THEN st
    ELSE [st EXCEPT !.data[t] =
             [i \in 1..Len(@) |-> StdSwap(@[i], index_a, index_b)]]

\* The loop over the variables begun at i = 1: variable 0 is left alone.
swapParticleDataValueFromOne(t, st, index_a, index_b) ==
    [st EXCEPT !.data[t] =
        [i \in 1..Len(@) |->
            IF i = 1 THEN @[i] ELSE StdSwap(@[i], index_a, index_b)]]

\* swapParticleDataValue<VariableType>::operator(): the loop over the
\* variables of one type.
swapParticleDataValue(t, st, index_a, index_b) ==
    [st EXCEPT !.data[t] =
        [i \in 1..Len(@) |-> StdSwap(@[i], index_a, index_b)]]

\* The keys of a std::map in iteration order: ascending.
RECURSIVE KeysInOrder(_, _)
KeysInOrder(m, k) ==
    IF k > Len(SortedNames) THEN <<>>
    ELSE (IF SortedNames[k] \in DOMAIN m THEN <<SortedNames[k]>> ELSE <<>>)
         \o KeysInOrder(m, k + 1)

\* The variable taken at the position of the entry in the map, not at
\* name_index.second.
loopParticleDataMapByPosition(t, st, data_map) ==
    LET keys == KeysInOrder(data_map[t], 1)
    IN  [st EXCEPT !.visited =
            @ \o [k \in 1..Len(keys) |->
                    [type_index |-> t,
                     variable_name |-> keys[k],
                     variable |-> st.data[t][k]]]]

\* loopParticleDataMap<VariableType>::operator(): for every entry of the map
\* of one type, variable_operation(variable_name, variable).
loopParticleDataMap(t, st, data_map) ==
    LET keys == KeysInOrder(data_map[t], 1)
    IN  [st EXCEPT !.visited =
            @ \o [k \in 1..Len(keys) |->
                    [type_index |-> t,
                     variable_name |-> keys[k],
                     variable |-> st.data[t][data_map[t][keys[k]] + 1]]]]

\* name_index.second ignored: the first variable of the type is passed.
loopVariableNameListFirstVariable(t, st, name_list) ==
    [st EXCEPT !.visited =
        @ \o [k \in 1..Len(name_list[t]) |->
                [type_index |-> t,
                 variable_name |-> name_list[t][k].first,
                 variable |-> st.data[t][1]]]]

\* loopVariableNameList<VariableType>::operator(): for every name_index of
\* the list of one type, in the order of the list,
\* variable_operation(name_index.first, the variable at name_index.second).
loopVariableNameList(t, st, name_list) ==
    [st EXCEPT !.visited =
        @ \o [k \in 1..Len(name_list[t]) |->
                [type_index |-> t,
                 variable_name |-> name_list[t][k].first,
                 variable |-> st.data[t][name_list[t][k].second + 1]]]]

\* OperationType<VariableType>::operator()(particle_data, particle_args...):
\* the instance of the operation template for type index t.
OperationInstance(OperationType, t, st, particle_args) ==
    CASE OperationType = "swapParticleDataValue" ->
            swapParticleDataValue(t, st, particle_args.index_a,
                                  particle_args.index_b)
      [] OperationType = "loopParticleDataMap" ->
            loopParticleDataMap(t, st, particle_args.particle_data_map)
      [] OperationType = "loopVariableNameList" ->
            loopVariableNameList(t, st, particle_args.variable_name_list)

\* One call of ParticleDataOperation::operator() to an operation instance.
RunInstance(OperationType, t, st, particle_args) ==
    OperationInstance(OperationType, t,
                      [st EXCEPT !.instances = Append(@, t)], particle_args)

\* ParticleDataOperation::operator(): scalar_operation, vector_operation,
\* matrix_operation, integer_operation, in this order.
ParticleDataOperation(OperationType, st, particle_args) ==
    LET scalar == RunInstance(OperationType, 0, st, particle_args)
        vector == RunInstance(OperationType, 1, scalar, particle_args)
        matrix == RunInstance(OperationType, 2, vector, particle_args)
    IN  RunInstance(OperationType, 3, matrix, particle_args)

\* variable[index] is an element of every variable of the data.
InBounds(data, index) ==
    \A t \in TypeIndexes : \A i \in 1..Len(data[t]) : index < Len(data[t][i])

\* An element of variable at index, which may lie outside the array.
ElementOrIndeterminate(variable, index, g) ==
    IF index < Len(variable) THEN variable[index + 1] ELSE g

\* std::swap(variable[index_a], variable[index_b]) with an index outside the
\* array, when it does not crash: the element in range receives what is read
\* outside, the write outside the array is not part of the particle data.
StdSwapOutOfRange(variable, index_a, index_b, g) ==
    [i \in 1..Len(variable) |->
        IF i = index_a + 1 THEN ElementOrIndeterminate(variable, index_b, g)
        ELSE IF i = index_b + 1 THEN ElementOrIndeterminate(variable, index_a, g)
        ELSE variable[i]]

\* ParticleDataOperation<swapParticleDataValue> applied to the particle data:
\* the swap of two particles in every variable.
Swap ==
    /\ store_status = "ok"
    /\ \E index_a, index_b \in 0..MaxParticles :
          /\ last_op' = [kind |-> "swap", a |-> index_a, b |-> index_b,
                         repeated |-> /\ last_op.kind = "swap"
                                      /\ last_op.a = index_a
                                      /\ last_op.b = index_b]
          /\ IF InBounds(particle_data, index_a) /\ InBounds(particle_data, index_b)
                THEN LET st == ParticleDataOperation(
                                  "swapParticleDataValue",
                                  OperationState(particle_data),
                                  [index_a |-> index_a, index_b |-> index_b])
                     IN  /\ particle_data' = st.data
                         /\ instances_run' = st.instances
                         /\ store_status' = "ok"
                ELSE \* variable[index] outside the array: undefined behaviour
                     \/ /\ store_status' = "crashed"
                        /\ UNCHANGED <<particle_data, instances_run>>
                     \/ \E g \in IndeterminateValues :
                           /\ store_status' = "corrupted"
                           /\ particle_data' =
                                 [t \in TypeIndexes |->
                                     [i \in 1..Len(particle_data[t]) |->
                                         StdSwapOutOfRange(particle_data[t][i],
                                                           index_a, index_b, g)]]
                           /\ instances_run' = <<0, 1, 2, 3>>
    /\ store_before' = particle_data
    /\ visited' = <<>>
    /\ UNCHANGED <<particle_data_map, variable_name_list, total_real_particles,
                   sched_vars>>

\* ParticleDataOperation<loopParticleDataMap> applied with a
\* variable_operation that records its arguments.
LoopParticleDataMap ==
    /\ store_status = "ok"
    /\ LET st == ParticleDataOperation(
                    "loopParticleDataMap",
                    OperationState(particle_data),
                    [particle_data_map |-> particle_data_map])
       IN  /\ visited' = st.visited
           /\ instances_run' = st.instances
    /\ last_op' = [kind |-> "loopParticleDataMap", a |-> 0, b |-> 0,
                   repeated |-> last_op.kind = "loopParticleDataMap"]
    /\ store_before' = particle_data
    /\ UNCHANGED <<particle_data, particle_data_map, store_status,
                   variable_name_list, total_real_particles, sched_vars>>

StoreNext ==
    \/ Swap
    \/ LoopParticleDataMap

\* The entries a list of type t is built from: the registered variables,
\* each with the index it is stored at.
NameIndexes(t) ==
    {[first |-> n, second |-> particle_data_map[t][n]] :
        n \in DOMAIN particle_data_map[t]}

\* ParticleDataOperation<loopVariableNameList> applied with a list of
\* registered variables (an entry may repeat) and a variable_operation that
\* records its arguments.
LoopVariableNameList ==
    /\ store_status = "ok"
    /\ \E entries \in [TypeIndexes -> 0..MaxListEntries] :
          /\ entries[0] + entries[1] + entries[2] + entries[3] <= MaxListEntries
          /\ \E scalars \in [1..entries[0] -> NameIndexes(0)],
                vectors \in [1..entries[1] -> NameIndexes(1)],
                matrices \in [1..entries[2] -> NameIndexes(2)],
                integers \in [1..entries[3] -> NameIndexes(3)] :
                LET name_list == <<scalars, vectors, matrices, integers>>
                    \* std::array<..., 4>, indexed from 0
                    list == [t \in TypeIndexes |-> name_list[t + 1]]
                    st == ParticleDataOperation(
                              "loopVariableNameList",
                              OperationState(particle_data),
                              [variable_name_list |-> list])
                IN  /\ variable_name_list' = list
                    /\ visited' = st.visited
                    /\ instances_run' = st.instances
    /\ last_op' = [kind |-> "loopVariableNameList", a |-> 0, b |-> 0,
                   repeated |-> last_op.kind = "loopVariableNameList"]
    /\ store_before' = particle_data
    /\ UNCHANGED <<particle_data, particle_data_map, store_status,
                   total_real_particles, sched_vars>>

ListNext == LoopVariableNameList

\* The value of a default-initialized element.
DefaultValue == 0

\* The arrays of type Real extended alone.
appendParticleOfReals(data) ==
    [t \in TypeIndexes |->
        [v \in 1..Len(data[t]) |->
            IF t = 0 THEN Append(data[t][v], DefaultValue) ELSE data[t][v]]]

\* registerVariable(category, name) for a name that is not registered: a new
\* array of length N, default-initialized, at the next index of its type.
registerVariable(data, data_map, t, name, N) ==
    [data |-> [data EXCEPT ![t] = Append(@, [i \in 1..N |-> DefaultValue])],
     data_map |->
        [data_map EXCEPT ![t] =
            [n \in DOMAIN @ \cup {name} |->
                IF n = name THEN Len(data[t]) ELSE @[n]]]]

\* appendParticle(): every array of every type extended by one
\* default-valued element.
appendParticle(data) ==
    [t \in TypeIndexes |->
        [v \in 1..Len(data[t]) |-> Append(data[t][v], DefaultValue)]]

\* removeParticle(index): swap(index, N - 1), then every array truncated by
\* one.
removeParticle(data, index, N) ==
    LET swapped == ParticleDataOperation(
                       "swapParticleDataValue", OperationState(data),
                       [index_a |-> index, index_b |-> N - 1]).data
    IN  [t \in TypeIndexes |->
            [v \in 1..Len(swapped[t]) |-> SubSeq(swapped[t][v], 1, N - 1)]]

RegisterVariable ==
    /\ store_status = "ok"
    /\ \E t \in TypeIndexes, name \in VariableNames :
          IF name \in DOMAIN particle_data_map[t]
             THEN /\ last_op' = [kind |-> "registerVariable",
                                 error |-> "DuplicateNameError"]
                  /\ UNCHANGED <<particle_data, particle_data_map>>
             ELSE LET registered == registerVariable(
                                       particle_data, particle_data_map,
                                       t, name, total_real_particles)
                  IN  /\ particle_data' = registered.data
                      /\ particle_data_map' = registered.data_map
                      /\ last_op' = [kind |-> "registerVariable",
                                     error |-> "none"]
    /\ store_before' = particle_data
    /\ visited' = <<>>
    /\ instances_run' = <<>>
    /\ UNCHANGED <<store_status, variable_name_list, total_real_particles,
                   sched_vars>>

AppendParticle ==
    /\ store_status = "ok"
    /\ total_real_particles < MaxParticles
    /\ particle_data' = appendParticle(particle_data)
    /\ total_real_particles' = total_real_particles + 1
    /\ last_op' = [kind |-> "appendParticle"]
    /\ store_before' = particle_data
    /\ visited' = <<>>
    /\ instances_run' = <<>>
    /\ UNCHANGED <<particle_data_map, store_status, variable_name_list,
                   sched_vars>>

RemoveParticle ==
    /\ store_status = "ok"
    /\ \E index \in 0..(total_real_particles - 1) :
          /\ particle_data' =
                removeParticle(particle_data, index, total_real_particles)
          /\ last_op' = [kind |-> "removeParticle", index |-> index]
    /\ total_real_particles' = total_real_particles - 1
    /\ store_before' = particle_data
    /\ visited' = <<>>
    /\ instances_run' = <<>>
    /\ UNCHANGED <<particle_data_map, store_status, variable_name_list,
                   sched_vars>>

RemovalNext == RemoveParticle

ParticlesNext ==
    \/ RegisterVariable
    \/ AppendParticle
    \/ RemoveParticle
    \/ Swap

vars == <<sched_vars, store_vars>>

\* The scheduler, on a body whose particle data no step of main touches.
Init == SchedInit /\ StoreEmpty
Next == SchedNext
Spec == Init /\ [][Next]_vars
\* main is a sequential program that keeps running: a statement that can
\* execute does execute.
FairSpec == Spec /\ WF_vars(Next)

\* The case of the source: the scripted estimates with the source's end_time,
\* output_interval and screen_output_interval.
ScenarioInit ==
    /\ SchedStart
    /\ scripted = TRUE
    /\ recorder_faults = FALSE
    /\ StoreEmpty
ScenarioSpec == ScenarioInit /\ [][Next]_vars

\* The scheduler with recorders whose writes may fail.
RecorderFaultInit ==
    /\ SchedStart
    /\ scripted = FALSE
    /\ recorder_faults = TRUE
    /\ StoreEmpty
RecorderFaultSpec == RecorderFaultInit /\ [][Next]_vars

\* The operations on the particle data of a body.
StoreSpecInit == StoreInit /\ SchedInit
StoreSpec == StoreSpecInit /\ [][StoreNext]_vars

\* A body whose particles are appended and removed and whose variables are
\* registered: at first every type has the same number of variables.
ParticlesInit ==
    /\ \E N \in 0..MaxParticles :
       \E c \in 0..SMIN(MaxVariables, Len(SortedNames)) :
          Generated(N, [t \in TypeIndexes |-> c],
                    [k \in 1..Len(SortedNames) |-> SortedNames[k]])
    /\ StoreUntouched
    /\ SchedInit
ParticlesSpec == ParticlesInit /\ [][ParticlesNext]_vars

\* The removal of particles, one after the other, from a body as generated
\* or from the store of the removal case.
RemovalInit ==
    \/ StoreSpecInit
    \/ /\ Generated(RemovalCaseParticles,
                    [t \in TypeIndexes |-> SMIN(MaxVariables, Len(SortedNames))],
                    [k \in 1..Len(SortedNames) |-> SortedNames[k]])
       /\ StoreUntouched
       /\ SchedInit
RemovalSpec == RemovalInit /\ [][RemovalNext]_vars

\* The iteration by variable list on the particle data of a body with the
\* most particles, its variables registered in either order of names.
ListInit ==
    /\ \E count \in [TypeIndexes -> 0..SMIN(MaxVariables, Len(SortedNames))] :
       \E order \in RegistrationOrders :
          Generated(MaxParticles, count, order)
    /\ StoreUntouched
    /\ SchedInit
ListSpec == ListInit /\ [][ListNext]_vars

(***************************************************************************)
(* Positions of the scheduler.                                             *)
(***************************************************************************)
\* Dt is set and in scope.
DtInScope ==
    pc \in CorrectionOperators \cup AcousticEstimators \cup RelaxationOperators
           \cup IterationRecorders \cup RefreshOperators
           \cup {"relaxation_loop", "advance_time", "screen_output",
                 "count_iteration"}
\* The acoustic sub-loop of the current outer step has exited.
AfterSubLoop ==
    pc \in IterationRecorders \cup RefreshOperators
           \cup {"screen_output", "count_iteration"}
\* Inside an iteration of the integration loop, before its refresh phase.
BeforeRefresh ==
    pc \in PreStepOperators \cup AdvectionEstimators \cup CorrectionOperators
           \cup AcousticEstimators \cup RelaxationOperators
           \cup IterationRecorders
           \cup {"relaxation_loop", "advance_time", "screen_output",
                 "count_iteration"}
\* Between two iterations of the integration loop, one at least completed.
BetweenOuterSteps ==
    /\ pc \in {"integration_loop", "body_states_recording", "main_loop", "done"}
    /\ number_of_iterations > 0
PositiveEstimatesOnly == nonpositive_returns = 0

(***************************************************************************)
(* C1.  With positive acoustic estimates, relaxation_time never exceeds Dt *)
(* and equals Dt when the acoustic sub-loop exits (the inner dt of one     *)
(* outer step sum to Dt, without overshoot).                               *)
(***************************************************************************)
C1_SubLoopSumsToDt ==
    (PositiveEstimatesOnly /\ DtInScope) =>
        /\ relaxation_time <= Dt
        /\ AfterSubLoop => relaxation_time = Dt

(***************************************************************************)
(* C2.  As claimed: with positive estimates, integration_time equals       *)
(* output_interval when the integration loop exits.                        *)
(***************************************************************************)
C2_IntegrationTimeEqualsOutputInterval ==
    (PositiveEstimatesOnly /\ pc = "body_states_recording") =>
        integration_time = output_interval

(***************************************************************************)
(* C2, amended.  When the integration loop exits, integration_time is at   *)
(* least output_interval, and it exceeds output_interval by less than the  *)
(* time the last outer step advanced: every outer step begins with         *)
(* integration_time < output_interval.                                     *)
(***************************************************************************)
C2_IntegrationTimeReachesOutputInterval ==
    /\ pc = "body_states_recording" => integration_time >= output_interval
    /\ AfterSubLoop => integration_time - relaxation_time < output_interval

C2_Witness ==
    /\ pc = "body_states_recording"
    /\ PositiveEstimatesOnly
    /\ integration_time > output_interval

(***************************************************************************)
(* C3.  For any estimator returns, physical_time never decreases from one  *)
(* state to the next and equals the sum of every inner dt applied so far.  *)
(***************************************************************************)
C3_MonotonicGlobalTime ==
    /\ [][physical_time' >= physical_time]_vars
    /\ [](pc # "advance_time" => physical_time = relaxed_total)

(***************************************************************************)
(* C4.  A non-positive advection or acoustic estimate is fatal at once: no *)
(* correction or relaxation operator runs with a non-positive step and no  *)
(* time counter is advanced by one.                                        *)
(***************************************************************************)
C4_NonPositiveStepIsFatal ==
    /\ pc \in CorrectionOperators \cup {"relaxation_loop"} => Dt > 0
    /\ pc \in RelaxationOperators \cup {"advance_time"} => dt > 0

(***************************************************************************)
(* C5.  If every estimator return is positive (at least one time unit),    *)
(* the scheduler eventually leaves the main loop, and it leaves it only    *)
(* with physical_time >= end_time.                                         *)
(***************************************************************************)
C5_Termination ==
    /\ <>(~PositiveEstimatesOnly \/ pc = "done")
    /\ [](pc = "done" => physical_time >= end_time)

C5_Witness == pc = "done" /\ PositiveEstimatesOnly

(***************************************************************************)
(* C6.  The cell-linked-list updates with particle sort and the            *)
(* configuration updates run exactly once per outer step: none has run     *)
(* while the step is at its pre-step updates, estimators, corrections or   *)
(* inner steps, they run only once the acoustic sub-loop has exited, and   *)
(* each has run once when the step is complete.                            *)
(***************************************************************************)
C6_RefreshOncePerOuterStep ==
    /\ BeforeRefresh => \A op \in RefreshOperators : calls[op] = 0
    /\ pc \in RefreshOperators =>
          /\ ~RelaxationLoopGuard
          /\ calls[pc] = 0
          /\ \A op \in RefreshOperators : calls[op] <= 1
    /\ BetweenOuterSteps => \A op \in RefreshOperators : calls[op] = 1

C6_Witness ==
    /\ pc = "integration_loop"
    /\ number_of_iterations > 1
    /\ \A op \in RelaxationOperators : calls[op] > 1
    /\ \A op \in RefreshOperators : calls[op] = 1

(***************************************************************************)
(* C11.  As claimed: the recorders write once per completed integration    *)
(* loop, after the guard integration_time < output_interval has failed,    *)
(* and no recorder writes from inside the integration loop.                *)
(***************************************************************************)
C11_RecordersWriteOnlyAfterIntegrationLoop ==
    /\ pc = "body_states_recording" => ~IntegrationLoopGuard
    /\ pc \in {"main_loop", "done"} /\ number_of_iterations > 0 => recorded = 1
    /\ \A op \in IterationRecorders : pc # op /\ calls[op] = 0

(***************************************************************************)
(* C11, amended.  body_states_recording writes once per completed          *)
(* integration loop, after the guard has failed and never inside the loop. *)
(* The other recorders write inside the loop, by the iteration count:      *)
(* restart_io when it is a multiple of restart_output_interval (0          *)
(* included), the energy and pressure recorders when it is a multiple of   *)
(* observation_sample_interval other than 0.                               *)
(***************************************************************************)
InsideIntegrationLoop ==
    BeforeRefresh \/ pc \in RefreshOperators \cup {"integration_loop"}
C11_BodyStatesRecordedOncePerIntegrationLoop ==
    /\ pc = "body_states_recording" => ~IntegrationLoopGuard /\ recorded = 0
    /\ InsideIntegrationLoop => recorded = 0
    /\ pc \in {"main_loop", "done"} /\ number_of_iterations > 0 => recorded = 1
    /\ pc \in {"write_water_mechanical_energy", "write_recorded_pressure"}
          => ObservationDue
    /\ pc = "restart_io" => RestartDue
    /\ pc = "count_iteration" =>
          /\ calls["restart_io"] = IF RestartDue THEN 1 ELSE 0
          /\ \A op \in {"write_water_mechanical_energy",
                        "write_recorded_pressure"} :
                calls[op] = IF ObservationDue THEN 1 ELSE 0

C11_Witness ==
    /\ pc = "main_loop"
    /\ recorded = 1
    /\ number_of_iterations > 1
    /\ PositiveEstimatesOnly

(***************************************************************************)
(* C12.  A write of a recorder that fails never ends the run: main goes on *)
(* to its next statement.                                                  *)
(***************************************************************************)
C12_RecorderFailureNeverAborts ==
    recorder_faults => pc # "terminated"

(***************************************************************************)
(* C13.  Within an inner step the four relaxation passes run in the order  *)
(* pressure of water, pressure of air, density of water, density of air,   *)
(* each with the dt computed for the step, and no time counter is advanced *)
(* by the step's dt before the four have run.                              *)
(***************************************************************************)
RelaxationPasses ==
    <<"water_pressure_relaxation", "air_pressure_relaxation",
      "water_density_relaxation", "air_density_relaxation">>
C13_RelaxationPassesInOrder ==
    /\ \A k \in 1..4 : pc = RelaxationPasses[k] =>
          /\ \A j \in 1..4 :
                calls[RelaxationPasses[j]] =
                    calls[pc] + (IF j < k THEN 1 ELSE 0)
          /\ physical_time = relaxed_total
    /\ pc \in RelaxationOperators \cup {"advance_time"} =>
          dt = InnerStep(dt_f, dt_a, Dt)
    /\ pc = "advance_time" =>
          /\ \A j \in 1..4 :
                calls[RelaxationPasses[j]] = calls["get_air_time_step_size"]
          /\ relaxed_total = physical_time + dt

C13_Witness ==
    /\ pc = "advance_time"
    /\ calls["air_density_relaxation"] = 2
    /\ dt > 0
    /\ relaxation_time > 0

(***************************************************************************)
(* C14.  In an outer step both pre-step updates run before an advection    *)
(* estimator is queried, Dt is the smaller of the two advection estimates, *)
(* and the density summations and the transport correction run once each,  *)
(* before the first inner step.                                            *)
(***************************************************************************)
C14_OuterStepSetUp ==
    /\ pc \in PreStepOperators =>
          \A op \in AdvectionEstimators : calls[op] = 0
    /\ pc \in AdvectionEstimators =>
          /\ calls[pc] = 0
          /\ \A op \in PreStepOperators : calls[op] = 1
    /\ DtInScope =>
          /\ Dt <= Dt_f /\ Dt <= Dt_a
          /\ Dt \in {Dt_f, Dt_a}
    /\ pc \in CorrectionOperators =>
          /\ calls[pc] = 0
          /\ \A op \in AcousticEstimators \cup RelaxationOperators :
                calls[op] = 0
    /\ (DtInScope /\ pc \notin CorrectionOperators) =>
          \A op \in CorrectionOperators : calls[op] = 1

C14_Witness ==
    /\ pc = "get_water_time_step_size"
    /\ relaxation_time > 0
    /\ Dt_f > Dt_a
    /\ Dt_a > 1
    /\ \A op \in CorrectionOperators : calls[op] = 1

(***************************************************************************)
(* C15.  With advection estimates 0.02 and 0.03 and acoustic estimates     *)
(* 0.005 and 0.007 at every query (20, 30, 5 and 7 units), every outer     *)
(* step has Dt = 20 and exactly four inner steps of 5, and relaxation_time *)
(* is exactly 20 when the sub-loop exits.                                  *)
(***************************************************************************)
C15_ScenarioFourInnerSteps ==
    scripted =>
        /\ DtInScope => Dt = 20
        /\ pc \in RelaxationOperators \cup {"advance_time"} => dt = 5
        /\ AfterSubLoop =>
              /\ relaxation_time = 20
              /\ \A op \in AcousticEstimators \cup RelaxationOperators :
                    calls[op] = 4

C15_Witness ==
    /\ scripted
    /\ pc = "screen_output"
    /\ relaxation_time = 20
    /\ physical_time > 20

(***************************************************************************)
(* C19.  When the refresh phase of an outer step ends, no body relation    *)
(* has a configuration older than the last cell-linked-list update of a    *)
(* body it refers to, its own body or a contact body.                      *)
(***************************************************************************)
C19_NoStaleConfigurationAfterRefresh ==
    pc \in {"integration_loop", "initialize_a_water_step"} => stale = {}

(***************************************************************************)
(* C20.  With positive estimates every inner step has 0 < dt <= Dt and dt  *)
(* at most each acoustic estimate, every outer step takes at least one     *)
(* inner step, and Dt <= relaxation_time < 2 * Dt when the sub-loop exits. *)
(***************************************************************************)
C20_InnerStepWithinBounds ==
    PositiveEstimatesOnly =>
        /\ pc \in RelaxationOperators \cup {"advance_time"} =>
              /\ 0 < dt /\ dt <= Dt
              /\ dt <= dt_f /\ dt <= dt_a
        /\ AfterSubLoop =>
              /\ \A op \in RelaxationOperators : calls[op] >= 1
              /\ Dt <= relaxation_time
              /\ relaxation_time < 2 * Dt

C20_Witness ==
    /\ AfterSubLoop
    /\ PositiveEstimatesOnly
    /\ relaxation_time > Dt
    /\ calls["air_density_relaxation"] >= 2

(***************************************************************************)
(* The particle data as the claims speak of it.                            *)
(***************************************************************************)
HasVariables(data) == \E t \in TypeIndexes : Len(data[t]) > 0
\* The particle count N of a store with at least one variable.
ParticleCount(data) ==
    LET t == CHOOSE u \in TypeIndexes : Len(data[u]) > 0
    IN  Len(data[t][1])
\* Index i of the source is in [0, N).
InParticleRange(data, i) == HasVariables(data) => i < ParticleCount(data)
\* Where the element now at index i was before swap(a, b).
Exchanged(i, a, b) == IF i = a THEN b ELSE IF i = b THEN a ELSE i
SwapApplied ==
    /\ last_op.kind = "swap"
    /\ InParticleRange(store_before, last_op.a)
    /\ InParticleRange(store_before, last_op.b)
RegisteredVariables ==
    {<<t, n>> \in TypeIndexes \X VariableNames : n \in DOMAIN particle_data_map[t]}

(***************************************************************************)
(* C7.  swap(a, b) through the dispatcher exchanges the elements at a and  *)
(* b in every variable of all four types and leaves every other element,   *)
(* the number of variables and every array length as they were.            *)
(***************************************************************************)
C7_SwapExchangesEveryVariable ==
    SwapApplied =>
        \A t \in TypeIndexes :
            /\ Len(particle_data[t]) = Len(store_before[t])
            /\ \A v \in 1..Len(store_before[t]) :
                  /\ Len(particle_data[t][v]) = Len(store_before[t][v])
                  /\ \A i \in 0..(Len(store_before[t][v]) - 1) :
                        particle_data[t][v][i + 1] =
                            store_before[t][v][Exchanged(i, last_op.a, last_op.b) + 1]

C7_Witness ==
    /\ SwapApplied
    /\ last_op.a # last_op.b
    /\ \A t \in TypeIndexes : Len(particle_data[t]) >= 2
    /\ ParticleCount(store_before) >= 2
    /\ particle_data # store_before

(***************************************************************************)
(* C8.  swap(a, b) followed by swap(a, b), a and b in range (a = b         *)
(* included), restores every variable of every type.                       *)
(***************************************************************************)
C8_SwapTwiceRestores ==
    [][(/\ SwapApplied
        /\ store_status = "ok"
        /\ last_op'.kind = "swap"
        /\ last_op'.a = last_op.a
        /\ last_op'.b = last_op.b
        /\ store_before' = particle_data)
       => particle_data' = store_before]_vars

C8_Witness ==
    /\ SwapApplied
    /\ last_op.repeated
    /\ store_status = "ok"
    /\ last_op.a # last_op.b
    /\ \A t \in TypeIndexes : Len(particle_data[t]) >= 1
    /\ particle_data # store_before

(***************************************************************************)
(* C9.  swap with an index outside [0, N) is reported as                   *)
(* IndexOutOfRangeError and no element of any variable is modified.        *)
(***************************************************************************)
C9_OutOfRangeSwapIsReported ==
    (/\ last_op.kind = "swap"
     /\ HasVariables(store_before)
     /\ \/ last_op.a >= ParticleCount(store_before)
        \/ last_op.b >= ParticleCount(store_before))
    => /\ store_status = "IndexOutOfRangeError"
       /\ particle_data = store_before

(***************************************************************************)
(* C10.  An operation applied by variable map runs the four instances once *)
(* each in the order scalar, vector, matrix, integer, and calls the        *)
(* visitor exactly once for every registered (type, name), with the array  *)
(* registered under that name, and for nothing else.                       *)
(***************************************************************************)
C10_MapLoopVisitsEachRegisteredVariableOnce ==
    last_op.kind = "loopParticleDataMap" =>
        /\ instances_run = <<0, 1, 2, 3>>
        /\ Len(visited) = Cardinality(RegisteredVariables)
        /\ {<<visited[k].type_index, visited[k].variable_name>> :
               k \in 1..Len(visited)} = RegisteredVariables
        /\ \A k \in 1..Len(visited) :
              visited[k].variable =
                  particle_data[visited[k].type_index]
                               [particle_data_map[visited[k].type_index]
                                                 [visited[k].variable_name] + 1]
        /\ \A j, k \in 1..Len(visited) :
              j < k => visited[j].type_index <= visited[k].type_index

C10_Witness ==
    /\ last_op.kind = "loopParticleDataMap"
    /\ \A t \in TypeIndexes : Len(particle_data[t]) >= 2
    /\ Len(visited) >= 8
    /\ particle_data_map[0] =
          [n \in VariableNames |-> IF n = SortedNames[1] THEN 1 ELSE 0]

(***************************************************************************)
(* C16.  An operation applied by variable list runs the four instances in  *)
(* order and calls the visitor, for each type, for exactly the entries of  *)
(* the list in list order, each with the listed name and the array stored  *)
(* at the listed index; a registered variable that is not in the list is   *)
(* not visited, and no variable is modified.                               *)
(***************************************************************************)
RECURSIVE ListedVisits(_)
ListedVisits(t) ==
    IF t > 3 THEN <<>>
    ELSE [k \in 1..Len(variable_name_list[t]) |->
            [type_index |-> t,
             variable_name |-> variable_name_list[t][k].first,
             variable |-> store_before[t][variable_name_list[t][k].second + 1]]]
         \o ListedVisits(t + 1)
Listed(t, n) ==
    \E k \in 1..Len(variable_name_list[t]) : variable_name_list[t][k].first = n
C16_ListLoopVisitsTheListInOrder ==
    last_op.kind = "loopVariableNameList" =>
        /\ instances_run = <<0, 1, 2, 3>>
        /\ visited = ListedVisits(0)
        /\ particle_data = store_before
        /\ \A k \in 1..Len(visited) :
              Listed(visited[k].type_index, visited[k].variable_name)

C16_Witness ==
    /\ last_op.kind = "loopVariableNameList"
    /\ Len(visited) = 2
    /\ total_real_particles = 2
    /\ Len(variable_name_list[1]) = 2
    /\ variable_name_list[1][1].first = SortedNames[2]
    /\ variable_name_list[1][1].second = 0
    /\ variable_name_list[1][2].first = SortedNames[1]
    /\ visited[1].variable # visited[2].variable
    /\ \E n \in VariableNames :
          /\ n \in DOMAIN particle_data_map[0]
          /\ ~Listed(0, n)

(***************************************************************************)
(* C17.  After every operation of a sequence of registerVariable,          *)
(* appendParticle, removeParticle and swap, every variable of every type   *)
(* has total_real_particles elements.                                      *)
(***************************************************************************)
C17_EveryVariableHasParticleCountLength ==
    \A t \in TypeIndexes : \A v \in 1..Len(particle_data[t]) :
        Len(particle_data[t][v]) = total_real_particles

C17_Witness ==
    /\ last_op.kind = "appendParticle"
    /\ total_real_particles = 2
    /\ \A t \in TypeIndexes : Len(particle_data[t]) = 2
    /\ particle_data[0][2] = <<DefaultValue, DefaultValue>>
    /\ particle_data[1][1][1] > DefaultValue
    /\ particle_data[1][1][2] = DefaultValue

(***************************************************************************)
(* C18.  removeParticle(index) on N particles leaves N - 1 particles,      *)
(* every variable of length N - 1, with what was at index N - 1 now at     *)
(* index and every other remaining element as it was (N = 5, index 1:      *)
(* what was at index 4 is at index 1 and every length is 4).               *)
(***************************************************************************)
C18_RemoveParticleMovesLastToIndex ==
    last_op.kind = "removeParticle" =>
        LET N == total_real_particles + 1
        IN  \A t \in TypeIndexes :
                /\ Len(particle_data[t]) = Len(store_before[t])
                /\ \A v \in 1..Len(store_before[t]) :
                      /\ Len(store_before[t][v]) = N
                      /\ Len(particle_data[t][v]) = N - 1
                      /\ \A i \in 0..(N - 2) :
                            particle_data[t][v][i + 1] =
                                IF i = last_op.index
                                   THEN store_before[t][v][N]
                                   ELSE store_before[t][v][i + 1]

C18_Witness ==
    /\ last_op.kind = "removeParticle"
    /\ last_op.index = 1
    /\ total_real_particles = 4
    /\ \A t \in TypeIndexes :
          /\ Len(particle_data[t]) = 2
          /\ \A v \in 0..1 :
                particle_data[t][v + 1] =
                    <<GeneratedValue(t, v, 0), GeneratedValue(t, v, 4),
                      GeneratedValue(t, v, 2), GeneratedValue(t, v, 3)>>


=============================================================================
